---- MODULE Spec2Model ----
(***************************************************************************)
(* Confluent Cloud Kafka sizing calculator (src/src/App.js).               *)
(*                                                                         *)
(* JavaScript numbers are modelled as exact rationals.  A number is the    *)
(* record [i, n, d] standing for i + n/d with d > 0, 0 <= n < d and n/d in *)
(* lowest terms, so two numbers are equal exactly when their records are.  *)
(* Keeping the integer part apart keeps every intermediate product inside  *)
(* the range of the model checker's integers.                              *)
(***************************************************************************)
EXTENDS Integers, Sequences, FiniteSets, TLC

VARIABLES
    inputs,       \* useState({})  : domain -> DomainInput          (App.js:78)
    clusterMode,  \* useState('single')                              (App.js:76)
    results,      \* useState({})  : domain -> env -> result cell    (App.js:79)
    storage,      \* localStorage['confluent-kafka-sizing-data']     (App.js:109)
    effects,      \* the effects React has scheduled and not yet run (App.js:419-435)
    available,    \* whether localStorage can be used: it is defined and does not throw
    thrown,       \* an exception has escaped the component
    edits,        \* number of form edits made so far (bounded by MaxEdits)
    callA,        \* one call of calculateECKUs: its arguments and, once made, its result
    callB         \* a second call of calculateECKUs

vars == <<inputs, clusterMode, results, storage, effects, available, thrown, edits,
          callA, callB>>
appVars == <<inputs, clusterMode, results, storage, effects, available, thrown, edits>>
tierVars == <<callA, callB>>

(***************************************************************************)
(* Bounds of the model.                                                    *)
(***************************************************************************)
\* throughputs tried on calculateECKUs: k*100 and k*100 + 1/2 for k in 0..MaxTK
MaxTK == 5
\* partition counts tried on calculateECKUs: m*1000 and m*1000 + 1 for m in 0..MaxPK
MaxPK == 9
\* form edits in one behaviour
MaxEdits == 1

(***************************************************************************)
(* Numbers.                                                                *)
(***************************************************************************)
RECURSIVE GCD(_, _)
GCD(a, b) == IF b = 0 THEN a ELSE GCD(b, a % b)

LCM(a, b) == (a \div GCD(a, b)) * b

\* The number I + N/D (D > 0, N any integer) in normal form.
Mk(I, N, D) ==
    LET r == N % D
    IN  IF r = 0 THEN [i |-> I + (N \div D), n |-> 0, d |-> 1]
        ELSE LET g == GCD(D, r)
             IN  [i |-> I + (N \div D), n |-> r \div g, d |-> D \div g]

QInt(k) == [i |-> k, n |-> 0, d |-> 1]

QFrac(p, q) == Mk(0, p, q)

QAdd(x, y) ==
    IF x.n = 0 THEN [i |-> x.i + y.i, n |-> y.n, d |-> y.d]
    ELSE IF y.n = 0 THEN [i |-> x.i + y.i, n |-> x.n, d |-> x.d]
    ELSE IF x.d = y.d THEN Mk(x.i + y.i, x.n + y.n, x.d)
    ELSE LET L == LCM(x.d, y.d)
         IN  Mk(x.i + y.i, x.n * (L \div x.d) + y.n * (L \div y.d), L)

\* x * p / q for integers p and q > 0: the integer part and the fraction part of x
\* are multiplied apart, each cancelled before it is multiplied
QMulFrac(x, p, q) ==
    LET g  == IF q = 1 THEN 1 ELSE GCD(q, IF p < 0 THEN -p ELSE p)
        p1 == p \div g
        q1 == q \div g
        whole == IF q1 = 1 THEN QInt(x.i * p1)
                 ELSE Mk((x.i \div q1) * p1, (x.i % q1) * p1, q1)
    IN  IF x.n = 0 THEN whole
        ELSE LET g2 == GCD(x.d, IF p1 < 0 THEN -p1 ELSE p1)
                 g3 == IF q1 = 1 THEN 1 ELSE GCD(q1, x.n)
             IN  QAdd(whole,
                      Mk(0, (x.n \div g3) * (p1 \div g2), (x.d \div g2) * (q1 \div g3)))

\* the numerator of x over the denominator x.d
Num(x) == x.i * x.d + x.n

\* x * y
QMul(x, y) == QMulFrac(x, Num(y), y.d)

\* a value that is not a finite number (Infinity, -Infinity, NaN)
NotFinite == [i |-> 0, n |-> 0, d |-> 0]

\* x / y
QDiv(x, y) ==
    IF Num(y) = 0 THEN NotFinite
    ELSE IF Num(y) < 0 THEN QMulFrac(x, -y.d, -Num(y))
    ELSE QMulFrac(x, y.d, Num(y))

QLess(x, y) == \/ x.i < y.i
               \/ x.i = y.i /\ x.n * y.d < y.n * x.d

QLeq(x, y) == ~QLess(y, x)

\* Math.max
QMax(x, y) == IF QLess(x, y) THEN y ELSE x

\* Math.ceil
QCeil(x) == IF x.n > 0 THEN x.i + 1 ELSE x.i

IMax(a, b) == IF a < b THEN b ELSE a

(***************************************************************************)
(* Constants of the program.                                               *)
(***************************************************************************)
ENVIRONMENTS == <<"dev", "tst", "pre", "prd">>

Envs == {ENVIRONMENTS[k] : k \in DOMAIN ENVIRONMENTS}

\* Object.keys(BUSINESS_DOMAINS), in insertion order
DomainOrder == <<"cust", "comm", "corp", "aops", "hols">>

Domains == {DomainOrder[k] : k \in DOMAIN DomainOrder}

\* BUSINESS_DOMAINS[domain].subdomains.length
BUSINESS_DOMAINS ==
    [cust |-> [subdomains |-> 5],
     comm |-> [subdomains |-> 5],
     corp |-> [subdomains |-> 4],
     aops |-> [subdomains |-> 5],
     hols |-> [subdomains |-> 8]]

\* mutant: a standard bundle of two units at 160 a month
CONFLUENT_ECKU_PRICING_standardAt160 ==
    [basic     |-> [ecku |-> 1, monthlyPrice |-> 75,  maxPartitions |-> 4000],
     standard  |-> [ecku |-> 2, monthlyPrice |-> 160, maxPartitions |-> 4000],
     dedicated |-> [ecku |-> 4, monthlyPrice |-> 300, maxPartitions |-> 10000]]

CONFLUENT_ECKU_PRICING ==
    [basic     |-> [ecku |-> 1, monthlyPrice |-> 75,  maxPartitions |-> 4000],
     standard  |-> [ecku |-> 2, monthlyPrice |-> 150, maxPartitions |-> 4000],
     dedicated |-> [ecku |-> 4, monthlyPrice |-> 300, maxPartitions |-> 10000]]

CONFLUENT_STORAGE_PRICING ==
    [basic     |-> QFrac(8, 100),
     standard  |-> QFrac(10, 100),
     dedicated |-> QFrac(12, 100)]

Tiers == {"basic", "standard", "dedicated"}

(***************************************************************************)
(* calculateECKUs (App.js:152-175)                                         *)
(***************************************************************************)
\* mutant: the thresholds compared with >= instead of >
calculateECKUs_geq(throughputMBps, partitions, durabilityLevel) ==
    LET first ==
            IF QLeq(QInt(400), throughputMBps) \/ partitions >= 8000
            THEN [ecku |-> QCeil(QMulFrac(throughputMBps, 1, 500)) * 4, tier |-> "dedicated"]
            ELSE IF QLeq(QInt(200), throughputMBps) \/ partitions >= 3000
            THEN [ecku |-> QCeil(QMulFrac(throughputMBps, 1, 250)) * 2, tier |-> "standard"]
            ELSE [ecku |-> QCeil(QMulFrac(throughputMBps, 1, 100)), tier |-> "basic"]
    IN  IF durabilityLevel = "dedicated"
        THEN [ecku |-> IMax(first.ecku, 4), tier |-> "dedicated"]
        ELSE first

\* mutant: the durability adjustment forgotten
calculateECKUs_noDurability(throughputMBps, partitions, durabilityLevel) ==
    IF QLess(QInt(400), throughputMBps) \/ partitions > 8000
    THEN [ecku |-> QCeil(QMulFrac(throughputMBps, 1, 500)) * 4, tier |-> "dedicated"]
    ELSE IF QLess(QInt(200), throughputMBps) \/ partitions > 3000
    THEN [ecku |-> QCeil(QMulFrac(throughputMBps, 1, 250)) * 2, tier |-> "standard"]
    ELSE [ecku |-> QCeil(QMulFrac(throughputMBps, 1, 100)), tier |-> "basic"]

\* mutant: the partition test of the first branch turned round
calculateECKUs_flipped(throughputMBps, partitions, durabilityLevel) ==
    LET first ==
            IF QLess(QInt(400), throughputMBps) \/ partitions < 8000
            THEN [ecku |-> QCeil(QMulFrac(throughputMBps, 1, 500)) * 4, tier |-> "dedicated"]
            ELSE IF QLess(QInt(200), throughputMBps) \/ partitions > 3000
            THEN [ecku |-> QCeil(QMulFrac(throughputMBps, 1, 250)) * 2, tier |-> "standard"]
            ELSE [ecku |-> QCeil(QMulFrac(throughputMBps, 1, 100)), tier |-> "basic"]
    IN  IF durabilityLevel = "dedicated"
        THEN [ecku |-> IMax(first.ecku, 4), tier |-> "dedicated"]
        ELSE first

\* mutant: the dedicated and standard units counted in bundles, not in units
calculateECKUs_bundles(throughputMBps, partitions, durabilityLevel) ==
    LET first ==
            IF QLess(QInt(400), throughputMBps) \/ partitions > 8000
            THEN [ecku |-> QCeil(QMulFrac(throughputMBps, 1, 500)), tier |-> "dedicated"]
            ELSE IF QLess(QInt(200), throughputMBps) \/ partitions > 3000
            THEN [ecku |-> QCeil(QMulFrac(throughputMBps, 1, 250)), tier |-> "standard"]
            ELSE [ecku |-> QCeil(QMulFrac(throughputMBps, 1, 100)), tier |-> "basic"]
    IN  IF durabilityLevel = "dedicated"
        THEN [ecku |-> IMax(first.ecku, 4), tier |-> "dedicated"]
        ELSE first

calculateECKUs(throughputMBps, partitions, durabilityLevel) ==
    LET first ==
            IF QLess(QInt(400), throughputMBps) \/ partitions > 8000
            THEN [ecku |-> QCeil(QMulFrac(throughputMBps, 1, 500)) * 4, tier |-> "dedicated"]
            ELSE IF QLess(QInt(200), throughputMBps) \/ partitions > 3000
            THEN [ecku |-> QCeil(QMulFrac(throughputMBps, 1, 250)) * 2, tier |-> "standard"]
            ELSE [ecku |-> QCeil(QMulFrac(throughputMBps, 1, 100)), tier |-> "basic"]
    IN  IF durabilityLevel = "dedicated"
        THEN [ecku |-> IMax(first.ecku, 4), tier |-> "dedicated"]
        ELSE first

(***************************************************************************)
(* initializeInputs (App.js:83-105)                                        *)
(***************************************************************************)
\* mutant: one topic for each subdomain
initializeInputs_oneTopicPerSubdomain ==
    [domain \in Domains |->
        [messagesPerSecond  |-> 1000,
         avgMessageSize     |-> 1024,
         retentionDays      |-> 7,
         replicationFactor  |-> 3,
         partitionsPerTopic |-> 6,
         topicsCount        |-> BUSINESS_DOMAINS[domain].subdomains,
         peakMultiplier     |-> QFrac(25, 10),
         compressionRatio   |-> QFrac(65, 100),
         durabilityLevel    |-> "standard",
         environments       |->
            [dev |-> [scale |-> QFrac(1, 10),  enabled |-> TRUE],
             tst |-> [scale |-> QFrac(3, 10),  enabled |-> TRUE],
             pre |-> [scale |-> QFrac(7, 10),  enabled |-> TRUE],
             prd |-> [scale |-> QFrac(10, 10), enabled |-> TRUE]]]]
initializeInputs ==
    [domain \in Domains |->
        [messagesPerSecond  |-> 1000,
         avgMessageSize     |-> 1024,
         retentionDays      |-> 7,
         replicationFactor  |-> 3,
         partitionsPerTopic |-> 6,
         topicsCount        |-> BUSINESS_DOMAINS[domain].subdomains * 2,
         peakMultiplier     |-> QFrac(25, 10),
         compressionRatio   |-> QFrac(65, 100),
         durabilityLevel    |-> "standard",
         environments       |->
            [dev |-> [scale |-> QFrac(1, 10),  enabled |-> TRUE],
             tst |-> [scale |-> QFrac(3, 10),  enabled |-> TRUE],
             pre |-> [scale |-> QFrac(7, 10),  enabled |-> TRUE],
             prd |-> [scale |-> QFrac(10, 10), enabled |-> TRUE]]]]

\* {} : the value of inputs and of results before initialization
Empty == [x \in {} |-> {}]

(***************************************************************************)
(* calculateSizing (App.js:178-244): the body of ENVIRONMENTS.forEach for   *)
(* one enabled environment, then the whole new results object.             *)
(***************************************************************************)
\* mutant: the storage cost priced at the basic rate whatever the tier
sizeCell_basicStoragePrice(domainInput, env) ==
    LET scale == domainInput.environments[env].scale
        scaledMps == QMul(QInt(domainInput.messagesPerSecond), scale)
        scaledPeakMps == QMul(scaledMps, domainInput.peakMultiplier)
        throughputMBps == QMulFrac(scaledPeakMps, domainInput.avgMessageSize, 1024 * 1024)
        compressedThroughput == QMul(throughputMBps, domainInput.compressionRatio)
        dailyDataGB ==
            QMulFrac(scaledMps, domainInput.avgMessageSize * 86400, 1024 * 1024 * 1024)
        compressedDailyDataGB == QMul(dailyDataGB, domainInput.compressionRatio)
        totalStorageGB ==
            QMulFrac(QMulFrac(compressedDailyDataGB, domainInput.retentionDays, 1),
                     domainInput.replicationFactor, 1)
        totalPartitions == domainInput.topicsCount * domainInput.partitionsPerTopic
        eckuCalc ==
            calculateECKUs(compressedThroughput, totalPartitions, domainInput.durabilityLevel)
        pricingTier == CONFLUENT_ECKU_PRICING[eckuCalc.tier]
        monthlyECKUCost ==
            QMulFrac(QMulFrac(QInt(eckuCalc.ecku), 1, pricingTier.ecku),
                     pricingTier.monthlyPrice, 1)
        monthlyStorageCost == QMul(totalStorageGB, CONFLUENT_STORAGE_PRICING["basic"])
        totalMonthlyCost == QAdd(monthlyECKUCost, monthlyStorageCost)
        annualCost == QMulFrac(totalMonthlyCost, 12, 1)
    IN  [throughputMBps    |-> compressedThroughput,
         rawThroughputMBps |-> throughputMBps,
         storageGB         |-> totalStorageGB,
         rawStorageGB      |-> QDiv(totalStorageGB, domainInput.compressionRatio),
         partitions        |-> totalPartitions,
         topics            |-> domainInput.topicsCount,
         ecku              |-> eckuCalc.ecku,
         tier              |-> eckuCalc.tier,
         tierDetails       |-> pricingTier,
         costs             |-> [monthly |-> totalMonthlyCost,
                                annual  |-> annualCost,
                                ecku    |-> monthlyECKUCost,
                                storage |-> monthlyStorageCost],
         scalingFactors    |-> [scale            |-> scale,
                                peakMultiplier   |-> domainInput.peakMultiplier,
                                compressionRatio |-> domainInput.compressionRatio]]

\* mutant: the storage sized from the unscaled message rate
sizeCell_unscaledStorage(domainInput, env) ==
    LET scale == domainInput.environments[env].scale
        scaledMps == QMul(QInt(domainInput.messagesPerSecond), scale)
        scaledPeakMps == QMul(scaledMps, domainInput.peakMultiplier)
        throughputMBps == QMulFrac(scaledPeakMps, domainInput.avgMessageSize, 1024 * 1024)
        compressedThroughput == QMul(throughputMBps, domainInput.compressionRatio)
        dailyDataGB ==
            QMulFrac(QInt(domainInput.messagesPerSecond),
                     domainInput.avgMessageSize * 86400, 1024 * 1024 * 1024)
        compressedDailyDataGB == QMul(dailyDataGB, domainInput.compressionRatio)
        totalStorageGB ==
            QMulFrac(QMulFrac(compressedDailyDataGB, domainInput.retentionDays, 1),
                     domainInput.replicationFactor, 1)
        totalPartitions == domainInput.topicsCount * domainInput.partitionsPerTopic
        eckuCalc ==
            calculateECKUs(compressedThroughput, totalPartitions, domainInput.durabilityLevel)
        pricingTier == CONFLUENT_ECKU_PRICING[eckuCalc.tier]
        monthlyECKUCost ==
            QMulFrac(QMulFrac(QInt(eckuCalc.ecku), 1, pricingTier.ecku),
                     pricingTier.monthlyPrice, 1)
        monthlyStorageCost == QMul(totalStorageGB, CONFLUENT_STORAGE_PRICING[eckuCalc.tier])
        totalMonthlyCost == QAdd(monthlyECKUCost, monthlyStorageCost)
        annualCost == QMulFrac(totalMonthlyCost, 12, 1)
    IN  [throughputMBps    |-> compressedThroughput,
         rawThroughputMBps |-> throughputMBps,
         storageGB         |-> totalStorageGB,
         rawStorageGB      |-> QDiv(totalStorageGB, domainInput.compressionRatio),
         partitions        |-> totalPartitions,
         topics            |-> domainInput.topicsCount,
         ecku              |-> eckuCalc.ecku,
         tier              |-> eckuCalc.tier,
         tierDetails       |-> pricingTier,
         costs             |-> [monthly |-> totalMonthlyCost,
                                annual  |-> annualCost,
                                ecku    |-> monthlyECKUCost,
                                storage |-> monthlyStorageCost],
         scalingFactors    |-> [scale            |-> scale,
                                peakMultiplier   |-> domainInput.peakMultiplier,
                                compressionRatio |-> domainInput.compressionRatio]]
sizeCell(domainInput, env) ==
    LET scale == domainInput.environments[env].scale
        scaledMps == QMul(QInt(domainInput.messagesPerSecond), scale)
        scaledPeakMps == QMul(scaledMps, domainInput.peakMultiplier)
        throughputMBps == QMulFrac(scaledPeakMps, domainInput.avgMessageSize, 1024 * 1024)
        compressedThroughput == QMul(throughputMBps, domainInput.compressionRatio)
        dailyDataGB ==
            QMulFrac(scaledMps, domainInput.avgMessageSize * 86400, 1024 * 1024 * 1024)
        compressedDailyDataGB == QMul(dailyDataGB, domainInput.compressionRatio)
        totalStorageGB ==
            QMulFrac(QMulFrac(compressedDailyDataGB, domainInput.retentionDays, 1),
                     domainInput.replicationFactor, 1)
        totalPartitions == domainInput.topicsCount * domainInput.partitionsPerTopic
        eckuCalc ==
            calculateECKUs(compressedThroughput, totalPartitions, domainInput.durabilityLevel)
        pricingTier == CONFLUENT_ECKU_PRICING[eckuCalc.tier]
        monthlyECKUCost ==
            QMulFrac(QMulFrac(QInt(eckuCalc.ecku), 1, pricingTier.ecku),
                     pricingTier.monthlyPrice, 1)
        monthlyStorageCost == QMul(totalStorageGB, CONFLUENT_STORAGE_PRICING[eckuCalc.tier])
        totalMonthlyCost == QAdd(monthlyECKUCost, monthlyStorageCost)
        annualCost == QMulFrac(totalMonthlyCost, 12, 1)
    IN  [throughputMBps    |-> compressedThroughput,
         rawThroughputMBps |-> throughputMBps,
         storageGB         |-> totalStorageGB,
         rawStorageGB      |-> QDiv(totalStorageGB, domainInput.compressionRatio),
         partitions        |-> totalPartitions,
         topics            |-> domainInput.topicsCount,
         ecku              |-> eckuCalc.ecku,
         tier              |-> eckuCalc.tier,
         tierDetails       |-> pricingTier,
         costs             |-> [monthly |-> totalMonthlyCost,
                                annual  |-> annualCost,
                                ecku    |-> monthlyECKUCost,
                                storage |-> monthlyStorageCost],
         scalingFactors    |-> [scale            |-> scale,
                                peakMultiplier   |-> domainInput.peakMultiplier,
                                compressionRatio |-> domainInput.compressionRatio]]

\* domainInput.environments[env] (App.js:186) throws a TypeError when a
\* domain has no environments
calculateSizingThrows(inp) ==
    \E domain \in DOMAIN inp : "environments" \notin DOMAIN inp[domain]

\* mutant: only the domains whose cells are missing are sized
calculateSizing_onlyNew(inp) ==
    [domain \in DOMAIN inp |->
        LET domainInput == IF domain = "cust" /\ inp[domain].messagesPerSecond # 1000
                           THEN initializeInputs[domain] ELSE inp[domain]
        IN  [env \in {e \in Envs : domainInput.environments[e].enabled} |->
                sizeCell(domainInput, env)]]

\* mutant: the cells of cust built from the default inputs, the others from inp
calculateSizing_mixed(inp) ==
    [domain \in DOMAIN inp |->
        LET domainInput == IF domain = "cust" THEN initializeInputs[domain] ELSE inp[domain]
        IN  [env \in {e \in Envs : domainInput.environments[e].enabled} |->
                sizeCell(domainInput, env)]]

\* mutant: the enabled flag ignored, every environment gets a cell
calculateSizing_allEnvs(inp) ==
    [domain \in DOMAIN inp |-> [env \in Envs |-> sizeCell(inp[domain], env)]]

\* the value handed to setResults
calculateSizing(inp) ==
    [domain \in DOMAIN inp |->
        [env \in {e \in Envs : inp[domain].environments[e].enabled} |->
            sizeCell(inp[domain], env)]]

(***************************************************************************)
(* totals (App.js:274-312): the useMemo over results and clusterMode.      *)
(***************************************************************************)
\* Object.keys(results[domain]): the enabled environments, in ENVIRONMENTS order
EnvKeys(res, domain) ==
    SelectSeq(ENVIRONMENTS, LAMBDA e : e \in DOMAIN res[domain])

\* Object.keys(results), in insertion order
DomainKeys(res) ==
    SelectSeq(DomainOrder, LAMBDA dm : dm \in DOMAIN res)

\* the order in which the two nested forEach visit the cells
RECURSIVE Visit(_, _)
Visit(res, doms) ==
    IF doms = <<>> THEN <<>>
    ELSE LET dm == Head(doms)
             ks == EnvKeys(res, dm)
         IN  [k \in 1..Len(ks) |-> <<dm, ks[k]>>] \o Visit(res, Tail(doms))

TotalsStart(res) ==
    [totalCost         |-> QInt(0),
     totalECKUs        |-> 0,
     totalStorage      |-> QInt(0),
     domainTotals      |-> [dm \in DOMAIN res |-> QInt(0)],
     environmentTotals |-> Empty]

\* mutant: the capacity units and the storage summed under both policies
TotalsStep_alwaysSum(acc, res, mode, dm, env) ==
    LET result == res[dm][env]
    IN  [totalCost    |-> QAdd(acc.totalCost, result.costs.monthly),
         totalECKUs   |-> acc.totalECKUs + result.ecku,
         totalStorage |-> QAdd(acc.totalStorage, result.storageGB),
         domainTotals |->
            [acc.domainTotals EXCEPT ![dm] = QAdd(@, result.costs.monthly)],
         environmentTotals |->
            [e \in (DOMAIN acc.environmentTotals) \cup {env} |->
                IF e = env
                THEN QAdd(IF env \in DOMAIN acc.environmentTotals
                          THEN acc.environmentTotals[env] ELSE QInt(0),
                          result.costs.monthly)
                ELSE acc.environmentTotals[e]]]

\* mutant: the grand total cost combined like the capacity units
TotalsStep_costByMode(acc, res, mode, dm, env) ==
    LET result == res[dm][env]
    IN  [totalCost    |-> IF mode = "single"
                          THEN QMax(acc.totalCost, result.costs.monthly)
                          ELSE QAdd(acc.totalCost, result.costs.monthly),
         totalECKUs   |-> IF mode = "single"
                          THEN IMax(acc.totalECKUs, result.ecku)
                          ELSE acc.totalECKUs + result.ecku,
         totalStorage |-> IF mode = "single"
                          THEN QMax(acc.totalStorage, result.storageGB)
                          ELSE QAdd(acc.totalStorage, result.storageGB),
         domainTotals |->
            [acc.domainTotals EXCEPT ![dm] = QAdd(@, result.costs.monthly)],
         environmentTotals |->
            [e \in (DOMAIN acc.environmentTotals) \cup {env} |->
                IF e = env
                THEN QAdd(IF env \in DOMAIN acc.environmentTotals
                          THEN acc.environmentTotals[env] ELSE QInt(0),
                          result.costs.monthly)
                ELSE acc.environmentTotals[e]]]

\* the body of the inner forEach for one cell (App.js:284-300)
TotalsStep(acc, res, mode, dm, env) ==
    LET result == res[dm][env]
    IN  [totalCost    |-> QAdd(acc.totalCost, result.costs.monthly),
         totalECKUs   |-> IF mode = "single"
                          THEN IMax(acc.totalECKUs, result.ecku)
                          ELSE acc.totalECKUs + result.ecku,
         totalStorage |-> IF mode = "single"
                          THEN QMax(acc.totalStorage, result.storageGB)
                          ELSE QAdd(acc.totalStorage, result.storageGB),
         domainTotals |->
            [acc.domainTotals EXCEPT ![dm] = QAdd(@, result.costs.monthly)],
         environmentTotals |->
            [e \in (DOMAIN acc.environmentTotals) \cup {env} |->
                IF e = env
                THEN QAdd(IF env \in DOMAIN acc.environmentTotals
                          THEN acc.environmentTotals[env] ELSE QInt(0),
                          result.costs.monthly)
                ELSE acc.environmentTotals[e]]]

RECURSIVE TotalsFold(_, _, _, _)
TotalsFold(acc, res, mode, cells) ==
    IF cells = <<>> THEN acc
    ELSE TotalsFold(TotalsStep(acc, res, mode, Head(cells)[1], Head(cells)[2]),
                    res, mode, Tail(cells))

Totals(res, mode) ==
    LET t == TotalsFold(TotalsStart(res), res, mode, Visit(res, DomainKeys(res)))
    IN  [totalCost         |-> t.totalCost,
         totalECKUs        |-> t.totalECKUs,
         totalStorage      |-> t.totalStorage,
         domainTotals      |-> t.domainTotals,
         environmentTotals |-> t.environmentTotals,
         annualCost        |-> QMulFrac(t.totalCost, 12, 1)]

\* what a render sees
totals == Totals(results, clusterMode)

(***************************************************************************)
(* JSON.stringify and JSON.parse on the object saveData writes.  A number  *)
(* is written as a number token when it is finite and as null when it is   *)
(* not; strings and booleans are written as they are.  The timestamp field *)
(* feeds lastSaved only and is left out.                                   *)
(***************************************************************************)
\* the fields of a DomainInput that hold reals; the other number fields hold integers
RealFields == {"peakMultiplier", "compressionRatio"}

JSONnumber(q) == IF q = NotFinite THEN <<"null">> ELSE <<"number", q>>

\* a token read back; calculateSizing's arithmetic reads null as 0
JSONreal(token) == IF token = <<"null">> THEN QInt(0) ELSE token[2]

JSONint(token) == IF token = <<"null">> THEN 0 ELSE token[2].i

JSONstringify(data) ==
    [k \in DOMAIN data |->
        IF k # "inputs" THEN data[k]
        ELSE [dm \in DOMAIN data.inputs |->
                LET di == data.inputs[dm]
                IN  [f \in DOMAIN di |->
                        IF f = "environments"
                        THEN [e \in DOMAIN di[f] |->
                                [g \in DOMAIN di[f][e] |->
                                    IF g = "scale" THEN JSONnumber(di[f][e][g])
                                    ELSE di[f][e][g]]]
                        ELSE IF f = "durabilityLevel" THEN di[f]
                        ELSE IF f \in RealFields THEN JSONnumber(di[f])
                        ELSE JSONnumber(QInt(di[f]))]]]

\* a text JSON.parse rejects with a SyntaxError
NoJSON == [syntax |-> "error"]

JSONparse(text) ==
    [k \in DOMAIN text |->
        IF k # "inputs" THEN text[k]
        ELSE [dm \in DOMAIN text.inputs |->
                LET di == text.inputs[dm]
                IN  [f \in DOMAIN di |->
                        IF f = "environments"
                        THEN [e \in DOMAIN di[f] |->
                                [g \in DOMAIN di[f][e] |->
                                    IF g = "scale" THEN JSONreal(di[f][e][g])
                                    ELSE di[f][e][g]]]
                        ELSE IF f = "durabilityLevel" THEN di[f]
                        ELSE IF f \in RealFields THEN JSONreal(di[f])
                        ELSE JSONint(di[f])]]]

(***************************************************************************)
(* The Snapshot Store: localStorage['confluent-kafka-sizing-data'] holds   *)
(* no item (<<>>) or one item (<<text>>).                                  *)
(***************************************************************************)
\* mutant: the exceptions of getItem and JSON.parse not caught
loadSavedData_noCatch(store, usable, mode) ==
    IF ~usable \/ (store # <<>> /\ store[1] = NoJSON)
    THEN [inputs |-> Empty, clusterMode |-> mode, thrown |-> TRUE]
    ELSE IF store # <<>> /\ "inputs" \in DOMAIN JSONparse(store[1])
    THEN [inputs      |-> JSONparse(store[1]).inputs,
          clusterMode |-> JSONparse(store[1]).clusterMode,
          thrown      |-> FALSE]
    ELSE [inputs |-> initializeInputs, clusterMode |-> mode, thrown |-> FALSE]

\* mutant: a snapshot that lacks a domain is not loaded
loadSavedData_validated(store, usable, mode) ==
    LET savedData == IF usable /\ store # <<>> /\ store[1] # NoJSON
                     THEN <<JSONparse(store[1])>>
                     ELSE <<>>
    IN  IF /\ savedData # <<>>
           /\ "inputs" \in DOMAIN savedData[1]
           /\ DOMAIN savedData[1].inputs = Domains
        THEN [inputs      |-> savedData[1].inputs,
              clusterMode |-> IF "clusterMode" \in DOMAIN savedData[1]
                              THEN savedData[1].clusterMode ELSE "single",
              thrown      |-> FALSE]
        ELSE [inputs |-> initializeInputs, clusterMode |-> mode, thrown |-> FALSE]

\* loadSavedData (App.js:108-131): the values given to setInputs and
\* setClusterMode, and whether an exception escapes.  savedData stays null
\* (<<>>) when localStorage is not usable, holds no item, or holds a text that
\* does not parse: the try block catches what getItem and JSON.parse throw.
loadSavedData(store, usable, mode) ==
    LET savedData == IF usable /\ store # <<>> /\ store[1] # NoJSON
                     THEN <<JSONparse(store[1])>>
                     ELSE <<>>
    IN  IF savedData # <<>> /\ "inputs" \in DOMAIN savedData[1]
        THEN [inputs      |-> savedData[1].inputs,
              clusterMode |-> IF "clusterMode" \in DOMAIN savedData[1]
                              THEN savedData[1].clusterMode ELSE "single",
              thrown      |-> FALSE]
        ELSE [inputs |-> initializeInputs, clusterMode |-> mode, thrown |-> FALSE]

\* mutant: the topology policy left out of the snapshot
saveData_inputsOnly(inp, mode, store, usable) ==
    [storage |-> IF usable THEN <<JSONstringify([inputs |-> inp])>> ELSE store,
     thrown  |-> FALSE]

\* mutant: the exception of setItem not caught
saveData_noCatch(inp, mode, store, usable) ==
    [storage |-> IF usable
                 THEN <<JSONstringify([inputs |-> inp, clusterMode |-> mode])>>
                 ELSE store,
     thrown  |-> ~usable]

\* saveData (App.js:134-149): the item after the call, and whether an
\* exception escapes; nothing is written when localStorage is not usable, and
\* what setItem throws is caught
saveData(inp, mode, store, usable) ==
    [storage |-> IF usable
                 THEN <<JSONstringify([inputs |-> inp, clusterMode |-> mode])>>
                 ELSE store,
     thrown  |-> FALSE]

(***************************************************************************)
(* What the user types into a number field and what parseInt and           *)
(* parseFloat make of it.                                                  *)
(***************************************************************************)
NaN == [nan |-> TRUE, v |-> QInt(0)]

Number(q) == [nan |-> FALSE, v |-> q]

parseFloat(text) ==
    CASE text = ""       -> NaN
      [] text = "-1000"  -> Number(QInt(-1000))
      [] text = "-1000000" -> Number(QInt(-1000000))
      [] text = "0.5"    -> Number(QFrac(5, 10))
      [] text = "2"      -> Number(QInt(2))
      [] text = "10"     -> Number(QInt(10))
      [] text = "400"    -> Number(QInt(400))
      [] text = "1000"   -> Number(QInt(1000))
      [] text = "2000"   -> Number(QInt(2000))
      [] text = "262144" -> Number(QInt(262144))

\* parseInt stops at the first character that is no digit
parseInt(text) ==
    LET f == parseFloat(text)
    IN  IF f.nan THEN NaN ELSE Number(QInt(IF f.v.i < 0 /\ f.v.n > 0 THEN f.v.i + 1 ELSE f.v.i))

\* parsed || fallback, for an integer field
IntOr(parsed, fallback) ==
    IF parsed.nan \/ parsed.v = QInt(0) THEN fallback ELSE parsed.v.i

\* parsed || fallback, for a real field
FloatOr(parsed, fallback) ==
    IF parsed.nan \/ parsed.v = QInt(0) THEN fallback ELSE parsed.v

\* the texts tried on each number field
Typed ==
    [messagesPerSecond  |-> {"", "-1000", "-1000000", "262144"},
     avgMessageSize     |-> {""},
     retentionDays      |-> {"400"},
     peakMultiplier     |-> {"10"},
     topicsCount        |-> {"1000", "2000"},
     partitionsPerTopic |-> {"400"},
     scale              |-> {"2"}]

\* the domains whose form is opened (selectedDomain, App.js:77)
FormDomains == {"cust"}

\* mutant: a compression ratio of 0 on offer
CompressionOptions_withZero ==
    {QFrac(10, 10), QFrac(8, 10), QFrac(65, 100), QFrac(5, 10), QInt(0)}

\* the <option> values of the three selects
ReplicationOptions == {1, 3, 5}
CompressionOptions == {QFrac(10, 10), QFrac(8, 10), QFrac(65, 100), QFrac(5, 10)}
DurabilityOptions == {"basic", "standard", "dedicated"}

(***************************************************************************)
(* updateInput and updateEnvironmentInput (App.js:247-271)                 *)
(***************************************************************************)
\* mutant: the field is set in every domain
updateInput_everyDomain(prev, domain, field, value) ==
    [d \in DOMAIN prev |-> [prev[d] EXCEPT ![field] = value]]

updateInput(prev, domain, field, value) ==
    [prev EXCEPT ![domain] = [prev[domain] EXCEPT ![field] = value]]

updateEnvironmentInput(prev, domain, env, field, value) ==
    [prev EXCEPT ![domain] =
        [prev[domain] EXCEPT !.environments =
            [prev[domain].environments EXCEPT ![env] =
                [prev[domain].environments[env] EXCEPT ![field] = value]]]]

(***************************************************************************)
(* The component: mount, effects and event handlers.                       *)
(***************************************************************************)
\* the inputs after the same edit was made in every domain's form
EveryDomain(field, value) ==
    [dm \in Domains |-> [initializeInputs[dm] EXCEPT ![field] = value]]

\* what saveData left in the store in an earlier session
Snapshot(inp, mode) == saveData(inp, mode, <<>>, TRUE).storage

\* what the store may hold at mount: nothing, the snapshot of an earlier
\* session, a snapshot without four of the domains, a snapshot whose domains
\* have no environments, or a text that is not JSON
InitialStorage ==
    {<<>>,
     Snapshot(EveryDomain("messagesPerSecond", 0), "single"),
     Snapshot(EveryDomain("messagesPerSecond", -1000), "domain"),
     Snapshot([dm \in {"comm"} |-> initializeInputs[dm]], "domain"),
     Snapshot([dm \in Domains |-> [messagesPerSecond |-> 1000]], "single"),
     <<NoJSON>>}

\* the snapshot that is tried with a localStorage that cannot be used
UnusableStorage == Snapshot(EveryDomain("messagesPerSecond", 0), "single")

AllEffects == {"load", "save", "calc"}

\* calculateECKUs is not being tried on its own
NoCall == [t |-> QInt(0), p |-> 0, d |-> "basic", ret |-> <<>>]

Init ==
    /\ inputs = Empty
    /\ clusterMode = "single"
    /\ results = Empty
    /\ storage \in InitialStorage
    /\ available \in IF storage = UnusableStorage THEN BOOLEAN ELSE {TRUE}
    /\ thrown = FALSE
    /\ effects = AllEffects
    /\ edits = 0
    /\ callA = NoCall
    /\ callB = NoCall

\* mutant: the save effect runs whether or not the InputSet is empty
RunEffects_saveWhileEmpty ==
    /\ effects # {}
    /\ ~thrown
    /\ LET loaded == IF "load" \in effects
                     THEN loadSavedData(storage, available, clusterMode)
                     ELSE [inputs |-> inputs, clusterMode |-> clusterMode,
                           thrown |-> FALSE]
           saved == IF "save" \in effects /\ ~loaded.thrown
                    THEN saveData(inputs, clusterMode, storage, available)
                    ELSE [storage |-> storage, thrown |-> FALSE]
           sizing == /\ "calc" \in effects
                     /\ inputs # Empty
                     /\ ~loaded.thrown
                     /\ ~saved.thrown
           failed == \/ loaded.thrown
                     \/ saved.thrown
                     \/ sizing /\ calculateSizingThrows(inputs)
       IN  /\ inputs' = IF loaded.thrown THEN inputs ELSE loaded.inputs
           /\ clusterMode' = IF loaded.thrown THEN clusterMode ELSE loaded.clusterMode
           /\ storage' = saved.storage
           /\ results' = IF sizing /\ ~failed THEN calculateSizing(inputs) ELSE results
           /\ thrown' = failed
           /\ effects' = IF failed THEN {}
                         ELSE IF "load" \in effects THEN {"save", "calc"}
                         ELSE {}
    /\ UNCHANGED <<available, edits, callA, callB>>

\* The effects of the last commit run, in the order of their definition
\* (App.js:419-435), each on the inputs and clusterMode of that render.  An
\* exception that escapes an effect unmounts the component.
RunEffects ==
    /\ effects # {}
    /\ ~thrown
    /\ LET loaded == IF "load" \in effects
                     THEN loadSavedData(storage, available, clusterMode)
                     ELSE [inputs |-> inputs, clusterMode |-> clusterMode,
                           thrown |-> FALSE]
           saved == IF "save" \in effects /\ inputs # Empty /\ ~loaded.thrown
                    THEN saveData(inputs, clusterMode, storage, available)
                    ELSE [storage |-> storage, thrown |-> FALSE]
           sizing == /\ "calc" \in effects
                     /\ inputs # Empty
                     /\ ~loaded.thrown
                     /\ ~saved.thrown
           failed == \/ loaded.thrown
                     \/ saved.thrown
                     \/ sizing /\ calculateSizingThrows(inputs)
       IN  /\ inputs' = IF loaded.thrown THEN inputs ELSE loaded.inputs
           /\ clusterMode' = IF loaded.thrown THEN clusterMode ELSE loaded.clusterMode
           /\ storage' = saved.storage
           /\ results' = IF sizing /\ ~failed THEN calculateSizing(inputs) ELSE results
           /\ thrown' = failed
           /\ effects' = IF failed THEN {}
                         ELSE IF "load" \in effects THEN {"save", "calc"}
                         ELSE {}
    /\ UNCHANGED <<available, edits, callA, callB>>

\* the page is opened again: a new mount of the component (App.js:75-80), the
\* store being what the last session left
Mount ==
    /\ effects = {} \/ thrown
    /\ inputs' = Empty
    /\ clusterMode' = "single"
    /\ results' = Empty
    /\ thrown' = FALSE
    /\ effects' = AllEffects
    /\ UNCHANGED <<storage, available, edits, callA, callB>>

\* an onChange handler of the domain form calls setInputs; the form is
\* rendered only when inputs has the selected domain (App.js:439)
Edit(newInputs) ==
    /\ effects = {}
    /\ ~thrown
    /\ inputs # Empty
    /\ edits < MaxEdits
    /\ inputs' = newInputs
    /\ effects' = {"save", "calc"}
    /\ edits' = edits + 1
    /\ UNCHANGED <<clusterMode, results, storage, available, thrown, callA, callB>>

\* the domains whose form is on the screen and takes an event
Shown == IF effects = {} /\ ~thrown THEN FormDomains \cap DOMAIN inputs ELSE {}

ChangeMessagesPerSecond ==
    \E dm \in Shown, text \in Typed.messagesPerSecond :
        Edit(updateInput(inputs, dm, "messagesPerSecond", IntOr(parseInt(text), 0)))

ChangeAvgMessageSize ==
    \E dm \in Shown, text \in Typed.avgMessageSize :
        Edit(updateInput(inputs, dm, "avgMessageSize", IntOr(parseInt(text), 0)))

ChangeRetentionDays ==
    \E dm \in Shown, text \in Typed.retentionDays :
        Edit(updateInput(inputs, dm, "retentionDays", IntOr(parseInt(text), 1)))

ChangeReplicationFactor ==
    \E dm \in Shown, option \in ReplicationOptions :
        /\ inputs # Empty
        /\ option # inputs[dm].replicationFactor
        /\ Edit(updateInput(inputs, dm, "replicationFactor", option))

ChangePeakMultiplier ==
    \E dm \in Shown, text \in Typed.peakMultiplier :
        Edit(updateInput(inputs, dm, "peakMultiplier", FloatOr(parseFloat(text), QInt(1))))

ChangeCompressionRatio ==
    \E dm \in Shown, option \in CompressionOptions :
        /\ inputs # Empty
        /\ option # inputs[dm].compressionRatio
        /\ Edit(updateInput(inputs, dm, "compressionRatio", option))

ChangeTopicsCount ==
    \E dm \in Shown, text \in Typed.topicsCount :
        Edit(updateInput(inputs, dm, "topicsCount", IntOr(parseInt(text), 1)))

ChangePartitionsPerTopic ==
    \E dm \in Shown, text \in Typed.partitionsPerTopic :
        Edit(updateInput(inputs, dm, "partitionsPerTopic", IntOr(parseInt(text), 1)))

ChangeDurabilityLevel ==
    \E dm \in Shown, option \in DurabilityOptions :
        /\ inputs # Empty
        /\ option # inputs[dm].durabilityLevel
        /\ Edit(updateInput(inputs, dm, "durabilityLevel", option))

ToggleEnabled ==
    \E dm \in Shown, env \in Envs :
        /\ inputs # Empty
        /\ Edit(updateEnvironmentInput(inputs, dm, env, "enabled",
                                       ~inputs[dm].environments[env].enabled))

\* the scale field is disabled while its environment is not enabled
ChangeScale ==
    \E dm \in Shown, env \in Envs, text \in Typed.scale :
        /\ inputs # Empty
        /\ inputs[dm].environments[env].enabled
        /\ Edit(updateEnvironmentInput(inputs, dm, env, "scale",
                                       FloatOr(parseFloat(text), QFrac(1, 10))))

\* the cluster architecture radio buttons (App.js:698-723)
SetClusterMode ==
    \E mode \in {"single", "domain"} :
        /\ effects = {}
        /\ inputs # Empty
        /\ ~thrown
        /\ mode # clusterMode
        /\ clusterMode' = mode
        /\ effects' = {"save"}
        /\ UNCHANGED <<inputs, results, storage, available, thrown, edits, callA, callB>>

Next ==
    \/ RunEffects
    \/ Mount
    \/ ChangeMessagesPerSecond
    \/ ChangeAvgMessageSize
    \/ ChangeRetentionDays
    \/ ChangeReplicationFactor
    \/ ChangePeakMultiplier
    \/ ChangeCompressionRatio
    \/ ChangeTopicsCount
    \/ ChangePartitionsPerTopic
    \/ ChangeDurabilityLevel
    \/ ToggleEnabled
    \/ ChangeScale
    \/ SetClusterMode

Spec == Init /\ [][Next]_vars

\* what RunEffects does to the pending effects: some of them are run.  While
\* effects are pending and nothing was thrown RunEffects is the only step Next
\* allows, so the steps of Flush are the steps of RunEffects.
Flush ==
    /\ effects # {}
    /\ ~thrown
    /\ effects' \in (SUBSET effects) \ {effects}

\* React runs the effects of every commit (App.js:419-435): a pending flush
\* is not put off for ever
SpecLive == Spec /\ WF_effects(Flush)

(***************************************************************************)
(* calculateECKUs on its own: the arguments are drawn from a grid that     *)
(* holds every threshold and the values just above it.                     *)
(***************************************************************************)
Throughputs ==
    {Mk(k * 100, e, 2) : k \in 0..MaxTK, e \in {0, 1}}

PartitionCounts ==
    {m * 1000 + e : m \in 0..MaxPK, e \in {0, 1}}

\* the arguments of a call that has not returned yet
Args(t, p, dur) == [t |-> t, p |-> p, d |-> dur, ret |-> <<>>]

\* two calls are set up, the second with at least the throughput and the
\* partitions of the first
TierInit ==
    /\ inputs = Empty
    /\ clusterMode = "single"
    /\ results = Empty
    /\ storage = <<>>
    /\ available = TRUE
    /\ thrown = FALSE
    /\ effects = AllEffects
    /\ edits = 0
    /\ callA \in {Args(t, p, dur) :
                    t \in Throughputs, p \in PartitionCounts, dur \in DurabilityOptions}
    /\ callB \in {Args(t, p, dur) :
                    t \in {u \in Throughputs : QLeq(callA.t, u)},
                    p \in {q \in PartitionCounts : callA.p <= q},
                    dur \in DurabilityOptions}

Return(call) ==
    [call EXCEPT !.ret = <<calculateECKUs(call.t, call.p, call.d)>>]

CallA ==
    /\ callA.ret = <<>>
    /\ callA' = Return(callA)
    /\ UNCHANGED <<callB, appVars>>

CallB ==
    /\ callA.ret # <<>>
    /\ callB.ret = <<>>
    /\ callB' = Return(callB)
    /\ UNCHANGED <<callA, appVars>>

TierNext == CallA \/ CallB

SpecTier == TierInit /\ [][TierNext]_vars

(***************************************************************************)
(* Claims about calculateECKUs, checked under SpecTier.                    *)
(***************************************************************************)
Calls == {c \in {callA, callB} : c.ret # <<>>}

\* t > k, for a number t and an integer k
Above(t, k) == t.i > k \/ (t.i = k /\ t.n > 0)

\* c is the least integer with t <= c * per, that is c = ceil(t / per)
CeilIs(c, t, per) == ~Above(t, c * per) /\ Above(t, (c - 1) * per)

Rank(tier) == CASE tier = "basic" -> 1 [] tier = "standard" -> 2 [] tier = "dedicated" -> 3

\* C1: with durability basic or standard the selector returns, first match
\* winning, dedicated with ceil(t/500)*4 units when t > 400 or p > 8000, else
\* standard with ceil(t/250)*2 units when t > 200 or p > 3000, else basic with
\* ceil(t/100) units; the thresholds are strict.
C1_TierSelection ==
    \A c \in Calls :
        c.d \in {"basic", "standard"} =>
            LET t == c.t
                p == c.p
                r == c.ret[1]
            IN  IF Above(t, 400) \/ p > 8000
                THEN r.tier = "dedicated" /\ r.ecku % 4 = 0 /\ CeilIs(r.ecku \div 4, t, 500)
                ELSE IF Above(t, 200) \/ p > 3000
                THEN r.tier = "standard" /\ r.ecku % 2 = 0 /\ CeilIs(r.ecku \div 2, t, 250)
                ELSE r.tier = "basic" /\ CeilIs(r.ecku, t, 100)

\* t = 200 with p = 3000 is basic, and t = 400 with p = 8000 is not dedicated
C1_Witness ==
    /\ callA.t = QInt(200) /\ callA.p = 3000 /\ callA.d = "basic"
    /\ callA.ret = <<[ecku |-> 2, tier |-> "basic"]>>
    /\ callB.t = QInt(400) /\ callB.p = 8000 /\ callB.d = "standard"
    /\ callB.ret = <<[ecku |-> 4, tier |-> "standard"]>>

\* C2: with durability dedicated the selector returns tier dedicated and at
\* least 4 units, whatever the thresholds alone would have chosen.
C2_DedicatedDurability ==
    \A c \in Calls :
        c.d = "dedicated" => c.ret[1].tier = "dedicated" /\ c.ret[1].ecku >= 4

\* a load the thresholds alone would put in the basic tier with 2 units
C2_Witness ==
    /\ callA.d = "dedicated"
    /\ callA.t = Mk(100, 1, 2) /\ callA.p = 1000
    /\ callA.ret = <<[ecku |-> 4, tier |-> "dedicated"]>>

\* C3 (as claimed): the selector returns at least 1 unit for every throughput
\* t >= 0, partition count p >= 0 and durability.
C3_UnitsAtLeastOne ==
    \A c \in Calls : c.ret[1].ecku >= 1

\* C4: with durability other than dedicated the tier never goes down when the
\* throughput and the partitions go up, and it is one of the three tiers.
C4_TierMonotonic ==
    /\ \A c \in Calls : c.ret[1].tier \in Tiers
    /\ (/\ callA.ret # <<>> /\ callB.ret # <<>>
        /\ callA.d # "dedicated" /\ callB.d # "dedicated"
        /\ QLeq(callA.t, callB.t) /\ callA.p <= callB.p)
       => Rank(callA.ret[1].tier) <= Rank(callB.ret[1].tier)

\* the tier rises from basic to dedicated on the partitions alone
C4_Witness ==
    /\ callA.ret # <<>> /\ callB.ret # <<>>
    /\ callA.d = "basic" /\ callB.d = "basic"
    /\ callA.t = callB.t /\ callA.p < callB.p
    /\ callA.ret[1].tier = "basic" /\ callB.ret[1].tier = "dedicated"

(***************************************************************************)
(* Claims about the result cells and the totals, checked under Spec.       *)
(***************************************************************************)
\* the (domain, environment) pairs that have a result cell
CellsOf(res) == {<<dm, e>> : dm \in DOMAIN res, e \in Envs} \cap
                {c \in Domains \X Envs : c[1] \in DOMAIN res /\ c[2] \in DOMAIN res[c[1]]}

\* no recomputation of the results is outstanding
Recomputed ==
    inputs # Empty /\ ~thrown /\ "load" \notin effects /\ "calc" \notin effects

\* the sum of f over a set of cells, in no particular order
RECURSIVE SumCost(_, _)
SumCost(res, cells) ==
    IF cells = {} THEN QInt(0)
    ELSE LET c == CHOOSE x \in cells : TRUE
         IN  QAdd(res[c[1]][c[2]].costs.monthly, SumCost(res, cells \ {c}))

RECURSIVE SumStorage(_, _)
SumStorage(res, cells) ==
    IF cells = {} THEN QInt(0)
    ELSE LET c == CHOOSE x \in cells : TRUE
         IN  QAdd(res[c[1]][c[2]].storageGB, SumStorage(res, cells \ {c}))

RECURSIVE SumUnits(_, _)
SumUnits(res, cells) ==
    IF cells = {} THEN 0
    ELSE LET c == CHOOSE x \in cells : TRUE
         IN  res[c[1]][c[2]].ecku + SumUnits(res, cells \ {c})

\* C5: for every result cell, monthly unit cost = (units / bundle size of the
\* tier) * monthly price of the tier, monthly storage cost = storage GB *
\* storage price of the tier, monthly total = unit cost + storage cost, annual
\* cost = 12 * monthly total, where (tier, units) is the selector's output for
\* the cell's compressed throughput, partitions and durability.
C5_CellCosts ==
    \A c \in CellsOf(results) :
        LET cell == results[c[1]][c[2]]
            tierDefinition == CONFLUENT_ECKU_PRICING[cell.tier]
        IN  /\ Recomputed =>
                [ecku |-> cell.ecku, tier |-> cell.tier] =
                    calculateECKUs(cell.throughputMBps, cell.partitions,
                                   inputs[c[1]].durabilityLevel)
            /\ QMulFrac(cell.costs.ecku, tierDefinition.ecku, 1) =
                    QInt(cell.ecku * tierDefinition.monthlyPrice)
            /\ cell.costs.storage =
                    QMul(cell.storageGB, CONFLUENT_STORAGE_PRICING[cell.tier])
            /\ cell.costs.monthly = QAdd(cell.costs.ecku, cell.costs.storage)
            /\ cell.costs.annual = QMulFrac(cell.costs.monthly, 12, 1)

\* one domain has a cell in each of the three tiers, each with storage to pay
C5_Witness ==
    /\ Recomputed
    /\ \E dm \in DOMAIN results :
        /\ DOMAIN results[dm] = Envs
        /\ results[dm]["prd"].tier = "dedicated"
        /\ results[dm]["pre"].tier = "standard"
        /\ results[dm]["tst"].tier = "basic"
        /\ \A e \in Envs : QLess(QInt(0), results[dm][e].costs.storage)

\* C6 (as claimed): under clusterMode 'single' totalECKUs is the maximum of the
\* cells' units and totalStorage the maximum of the cells' storage; under
\* 'domain' each is the sum over the cells.
C6_MaxOrSum ==
    LET cells == CellsOf(results)
        t == totals
    IN  cells # {} =>
            IF clusterMode = "single"
            THEN /\ \E c \in cells : results[c[1]][c[2]].ecku = t.totalECKUs
                 /\ \A c \in cells : results[c[1]][c[2]].ecku <= t.totalECKUs
                 /\ \E c \in cells : results[c[1]][c[2]].storageGB = t.totalStorage
                 /\ \A c \in cells : QLeq(results[c[1]][c[2]].storageGB, t.totalStorage)
            ELSE /\ t.totalECKUs = SumUnits(results, cells)
                 /\ t.totalStorage = SumStorage(results, cells)

\* C7: under both policies totalCost is the sum of the cells' monthly cost, each
\* domain subtotal the sum over that domain's cells, each environment subtotal
\* the sum over that environment's cells, and the two policies give the same.
C7_CostSums ==
    LET cells == CellsOf(results)
        t == totals
        o == Totals(results, IF clusterMode = "single" THEN "domain" ELSE "single")
    IN  /\ t.totalCost = SumCost(results, cells)
        /\ DOMAIN t.domainTotals = DOMAIN results
        /\ \A dm \in DOMAIN results :
              t.domainTotals[dm] = SumCost(results, {c \in cells : c[1] = dm})
        /\ DOMAIN t.environmentTotals = {c[2] : c \in cells}
        /\ \A e \in DOMAIN t.environmentTotals :
              t.environmentTotals[e] = SumCost(results, {c \in cells : c[2] = e})
        /\ o.totalCost = t.totalCost
        /\ o.domainTotals = t.domainTotals
        /\ o.environmentTotals = t.environmentTotals

\* under the per-domain policy, cells that differ in cost and a domain that has
\* lost an environment
C7_Witness ==
    /\ Recomputed
    /\ clusterMode = "domain"
    /\ \E dm \in DOMAIN results : DOMAIN results[dm] # Envs /\ DOMAIN results[dm] # {}
    /\ QLess(QInt(0), totals.totalCost)
    /\ \E e \in DOMAIN totals.environmentTotals :
          QLess(totals.environmentTotals[e], totals.totalCost)

\* the (domain, environment) pairs that are enabled in the inputs
EnabledOf(inp) ==
    {c \in Domains \X Envs : c[1] \in DOMAIN inp /\ inp[c[1]].environments[c[2]].enabled}

\* C8: once recomputation has run, the results hold a cell for (domain,
\* environment) exactly when the environment is enabled in the domain's input,
\* and the grand total cost, total units, total storage, domain subtotals and
\* environment subtotals are those of the enabled environments alone.
C8_EnabledCells ==
    Recomputed =>
        LET on == EnabledOf(inputs)
            t == totals
            units(c) == results[c[1]][c[2]].ecku
            stored(c) == results[c[1]][c[2]].storageGB
        IN  /\ DOMAIN results = DOMAIN inputs
            /\ CellsOf(results) = on
            /\ t.totalCost = SumCost(results, on)
            /\ \A dm \in DOMAIN inputs :
                  t.domainTotals[dm] = SumCost(results, {c \in on : c[1] = dm})
            /\ DOMAIN t.environmentTotals = {c[2] : c \in on}
            /\ \A e \in DOMAIN t.environmentTotals :
                  t.environmentTotals[e] = SumCost(results, {c \in on : c[2] = e})
            /\ IF clusterMode = "single"
               THEN /\ \A c \in on : units(c) <= t.totalECKUs
                    /\ t.totalECKUs = 0 \/ \E c \in on : units(c) = t.totalECKUs
                    /\ \A c \in on : QLeq(stored(c), t.totalStorage)
                    /\ \/ t.totalStorage = QInt(0)
                       \/ \E c \in on : stored(c) = t.totalStorage
               ELSE /\ t.totalECKUs = SumUnits(results, on)
                    /\ t.totalStorage = SumStorage(results, on)

\* the production environment of a domain, the largest cell of all, has been
\* disabled and the results recomputed
C8_Witness ==
    /\ Recomputed
    /\ \E dm \in DOMAIN inputs :
        /\ ~inputs[dm].environments["prd"].enabled
        /\ DOMAIN results[dm] = Envs \ {"prd"}
        /\ inputs[dm].messagesPerSecond > 0
    /\ QLess(QInt(0), totals.totalStorage)

\* a step of SetClusterMode: clusterMode changes and it is neither the load
\* nor a new mount that changes it
TopologyChange ==
    clusterMode' # clusterMode /\ "load" \notin effects /\ "load" \notin effects'

\* C9: changing the topology policy alone leaves every result cell, the inputs,
\* the grand total cost and the domain and environment subtotals unchanged.
C9_TopologyFrame ==
    [][/\ TopologyChange =>
            /\ inputs' = inputs
            /\ results' = results
            /\ \A res \in {results'}, mode \in {clusterMode'} :
                  LET after == Totals(res, mode)
                  IN  /\ after.totalCost = totals.totalCost
                      /\ after.domainTotals = totals.domainTotals
                      /\ after.environmentTotals = totals.environmentTotals
       \* nor does the effect the change schedules touch them
       /\ effects = {"save"} => inputs' = inputs /\ results' = results
      ]_vars

\* the policy has just been changed to per-domain; the store still holds 'single'
C9_Witness ==
    /\ clusterMode = "domain"
    /\ effects = {"save"}
    /\ storage # <<>> /\ storage[1].clusterMode = "single"
    /\ CellsOf(results) # {}
    /\ QLess(QInt(0), totals.totalCost)

\* C10 (as claimed): changing the topology policy alone changes totalECKUs and
\* totalStorage.
C10_TopologyChangesTotals ==
    [][TopologyChange =>
            \A res \in {results'}, mode \in {clusterMode'} :
                LET after == Totals(res, mode)
                IN  /\ after.totalECKUs # totals.totalECKUs
                    /\ after.totalStorage # totals.totalStorage
      ]_vars

PositiveUnits(res) == {c \in CellsOf(res) : res[c[1]][c[2]].ecku > 0}
NegativeUnits(res) == {c \in CellsOf(res) : res[c[1]][c[2]].ecku < 0}
PositiveStorage(res) == {c \in CellsOf(res) : QLess(QInt(0), res[c[1]][c[2]].storageGB)}
NegativeStorage(res) == {c \in CellsOf(res) : QLess(res[c[1]][c[2]].storageGB, QInt(0))}

\* C10 (amended): changing the topology policy alone changes totalECKUs when at
\* least two cells have positive units and none has negative units, and leaves
\* it unchanged when at most one cell has positive units and none has negative
\* units; the same holds of totalStorage and the cells' storage.
C10_TopologyChangesTotalsOfSeveralCells ==
    [][TopologyChange =>
            \A res \in {results'}, mode \in {clusterMode'} :
                LET after == Totals(res, mode)
                IN  /\ NegativeUnits(results) = {} =>
                          (after.totalECKUs # totals.totalECKUs
                              <=> Cardinality(PositiveUnits(results)) >= 2)
                    /\ NegativeStorage(results) = {} =>
                          (after.totalStorage # totals.totalStorage
                              <=> Cardinality(PositiveStorage(results)) >= 2)
      ]_vars

\* the policy has just been changed to per-domain with twenty cells of default
\* load: 20 units instead of 1, and more storage than the largest cell
C10_Witness ==
    /\ clusterMode = "domain"
    /\ effects = {"save"}
    /\ storage # <<>> /\ storage[1].clusterMode = "single"
    /\ Cardinality(PositiveUnits(results)) = 20
    /\ Cardinality(PositiveStorage(results)) = 20
    /\ totals.totalECKUs = 20
    /\ Totals(results, "single").totalECKUs = 1
    /\ QLess(Totals(results, "single").totalStorage, totals.totalStorage)

(***************************************************************************)
(* Claims about the Snapshot Store, checked under Spec.                    *)
(***************************************************************************)
\* a step of Mount: the page is opened again
NewMount == "load" \notin effects /\ "load" \in effects'

\* C11: when persistence succeeds, a new mount after any sequence of input
\* mutations and topology changes loads an InputSet equal, field for field, to
\* the InputSet of the last save, and the same clusterMode.
C11_RoundTrip ==
    [][/\ (NewMount /\ available /\ ~thrown /\ inputs # Empty) =>
            \A store \in {storage'}, usable \in {available'}, mode \in {clusterMode'} :
                LET loaded == loadSavedData(store, usable, mode)
                IN  /\ loaded.inputs = inputs
                    /\ loaded.clusterMode = clusterMode
                    /\ ~loaded.thrown
       \* and the load effect of the new mount sets what loadSavedData reads
       /\ ("load" \in effects /\ available /\ storage # <<>>) =>
            \A store \in {storage} :
                LET loaded == loadSavedData(store, TRUE, clusterMode)
                IN  inputs' = loaded.inputs /\ clusterMode' = loaded.clusterMode
      ]_vars

\* a second mount has loaded what the first saved after an edit and a change
\* of topology
C11_Witness ==
    /\ available
    /\ edits > 0
    /\ effects = {"save", "calc"}
    /\ results = Empty
    /\ clusterMode = "domain"
    /\ DOMAIN inputs = Domains
    /\ inputs # initializeInputs
    /\ storage = Snapshot(inputs, clusterMode)
    /\ \E dm \in Domains : ~inputs[dm].environments["dev"].enabled

\* a text that parses but is not the snapshot of a whole InputSet: a domain
\* is missing, or a domain lacks a field
Malformed(text) ==
    /\ text # NoJSON
    /\ \/ "inputs" \notin DOMAIN text
       \/ DOMAIN text.inputs # Domains
       \/ \E dm \in DOMAIN text.inputs :
             DOMAIN text.inputs[dm] # DOMAIN initializeInputs["cust"]

\* C12 (as claimed): loading a snapshot that misses domain keys or has the
\* wrong shape sets the InputSet to the defaults of all five domains, as if no
\* snapshot existed, and no exception is raised by the load or by the
\* recomputation that follows.
C12_MalformedAsAbsent ==
    [][/\ ("load" \in effects /\ available /\ storage # <<>> /\ Malformed(storage[1])) =>
            inputs' = initializeInputs /\ clusterMode' = "single"
       /\ ~thrown'
      ]_vars

\* C13 (as claimed): in every reachable state, those after a snapshot is
\* loaded included, inputs is empty or holds all five domains.
C13_EmptyOrComplete ==
    inputs = Empty \/ DOMAIN inputs = Domains

\* reading the store fails: localStorage is undefined or getItem throws, or
\* the stored text does not parse
ReadFails == ~available \/ (storage # <<>> /\ storage[1] = NoJSON)

\* C14: if reading the Snapshot Store fails, the load raises no exception,
\* inputs is set to the freshly initialized defaults and clusterMode stays
\* 'single'; results (and with them totals) are then computed from those
\* defaults.
C14_ReadFailureFallsBack ==
    [][/\ ("load" \in effects /\ ReadFails) =>
            /\ inputs' = initializeInputs
            /\ clusterMode' = "single"
            /\ ~thrown'
       \* the effects of the render that follows the load
       /\ (effects = {"save", "calc"} /\ results = Empty /\ inputs = initializeInputs) =>
            /\ results' = calculateSizing(initializeInputs)
            /\ inputs' = inputs
            /\ clusterMode' = clusterMode
            /\ ~thrown'
      ]_vars

\* localStorage could not be read although it holds a snapshot, and the
\* results of the defaults are on the screen
C14_Witness ==
    /\ ~available
    /\ storage # <<>>
    /\ JSONparse(storage[1]).inputs # initializeInputs
    /\ inputs = initializeInputs
    /\ clusterMode = "single"
    /\ effects = {}
    /\ ~thrown
    /\ edits = 0
    /\ CellsOf(results) = Domains \X Envs
    /\ totals.totalECKUs = 1

\* the save effect runs and cannot write
SaveFails == "save" \in effects /\ "load" \notin effects /\ inputs # Empty /\ ~available

\* C15: if writing the snapshot fails, the failed save raises no exception and
\* leaves inputs, clusterMode, results and totals as they would be had it
\* succeeded: inputs and clusterMode unchanged, results those of the recompute
\* effect of the same commit, if there is one; later input mutations and
\* recomputations go on in the same way.
C15_WriteFailureIsHarmless ==
    [][SaveFails =>
            /\ ~thrown'
            /\ inputs' = inputs
            /\ clusterMode' = clusterMode
            /\ results' = IF "calc" \in effects THEN calculateSizing(inputs) ELSE results
            /\ storage' = storage
            /\ effects' = {}
      ]_vars

\* no save has succeeded, and an edit and a change of topology made after the
\* first failed save have been sized and aggregated
C15_Witness ==
    /\ ~available
    /\ storage = UnusableStorage
    /\ ~thrown
    /\ effects = {}
    /\ edits > 0
    /\ clusterMode = "domain"
    /\ inputs # initializeInputs
    /\ DOMAIN results = Domains
    /\ \E dm \in Domains : DOMAIN results[dm] # Envs
    /\ totals.totalECKUs = Cardinality(CellsOf(results))

(***************************************************************************)
(* Claims about the values the form stores, checked under Spec.            *)
(***************************************************************************)
\* a step of a form handler: setInputs with a new InputSet
Mutation == effects = {} /\ ~thrown /\ inputs' # inputs /\ inputs' # Empty

\* every number field of every DomainInput is within its declared range
InRange(inp) ==
    \A dm \in DOMAIN inp :
        LET di == inp[dm]
        IN  /\ di.messagesPerSecond >= 0
            /\ di.avgMessageSize >= 1
            /\ di.retentionDays \in 1..365
            /\ di.partitionsPerTopic \in 1..100
            /\ di.topicsCount >= 1
            /\ QLeq(QInt(1), di.peakMultiplier) /\ QLeq(di.peakMultiplier, QInt(10))
            /\ \A e \in Envs : QLess(QInt(0), di.environments[e].scale)

\* C16 (as claimed): starting from default inputs, which are in range, every
\* mutation made through the form's change handlers leaves every number field
\* within its declared range.
C16_FieldsInRange ==
    [][(Mutation /\ InRange(inputs)) => InRange(inputs')]_vars

\* every domain's compressionRatio is in (0, 1]
RatioInRange(inp) ==
    \A dm \in DOMAIN inp :
        QLess(QInt(0), inp[dm].compressionRatio) /\ QLeq(inp[dm].compressionRatio, QInt(1))

\* the recompute effect runs to its end
Sizing ==
    /\ "calc" \in effects
    /\ "load" \notin effects
    /\ inputs # Empty
    /\ ~thrown
    /\ ~calculateSizingThrows(inputs)

\* C17: starting from default inputs, every mutation made through the form
\* leaves every domain's compressionRatio in (0, 1], and the division
\* totalStorageGB / compressionRatio of the sizing never divides by zero.
C17_CompressionRatioInRange ==
    [][/\ (Mutation /\ RatioInRange(inputs)) => RatioInRange(inputs')
       /\ (Sizing /\ RatioInRange(inputs)) =>
            \A dm \in DOMAIN results' : \A e \in DOMAIN results'[dm] :
                results'[dm][e].rawStorageGB # NotFinite
      ]_vars

\* the ratio 0.5 has been chosen for a domain and its cells sized: the raw
\* storage is twice the compressed storage
C17_Witness ==
    /\ Recomputed
    /\ edits > 0
    /\ \E dm \in DOMAIN inputs :
        /\ inputs[dm].compressionRatio = QFrac(5, 10)
        /\ "prd" \in DOMAIN results[dm]
        /\ QLess(QInt(0), results[dm]["prd"].storageGB)
        /\ results[dm]["prd"].rawStorageGB = QMulFrac(results[dm]["prd"].storageGB, 2, 1)

(***************************************************************************)
(* Claims about recomputation, checked under Spec and SpecLive.            *)
(***************************************************************************)
\* the complete output of one run of the sizing over the InputSet inp
SizingOf(inp) ==
    [dm \in DOMAIN inp |->
        [e \in {x \in Envs : inp[dm].environments[x].enabled} |-> sizeCell(inp[dm], e)]]

\* C18: no torn read is observable: results only ever changes to the complete
\* output of one run of the sizing over one InputSet value (or to {} on a new
\* mount), never to a mix of cells of two InputSets, and the totals observed
\* with it aggregate exactly that ResultSet.
C18_NoTornRead ==
    [][/\ results' # results =>
            \/ NewMount /\ results' = Empty
            \/ Sizing /\ \A inp \in {inputs} : results' = SizingOf(inp)
       /\ totals.totalCost = SumCost(results, CellsOf(results))
       /\ DOMAIN totals.domainTotals = DOMAIN results
      ]_vars

\* a render between setInputs and the recompute effect: the production
\* environment was just disabled, and the results on the screen are still the
\* whole results of the inputs before
C18_Witness ==
    /\ effects = {"save", "calc"}
    /\ edits > 0
    /\ ~thrown
    /\ DOMAIN results = DOMAIN inputs
    /\ \E dm \in DOMAIN inputs :
        /\ ~inputs[dm].environments["prd"].enabled
        /\ DOMAIN results[dm] = Envs
    /\ QLess(QInt(0), totals.totalCost)

\* an input mutation on a non-empty InputSet has been made and its
\* recomputation is due
MutationPending ==
    /\ edits > 0
    /\ effects = {"save", "calc"}
    /\ inputs # Empty
    /\ results # Empty
    /\ ~thrown

\* C19: after an input mutation on a non-empty InputSet the recompute effect
\* eventually runs, and the step that runs it leaves the InputSet as it is and
\* replaces the ResultSet as a whole by the sizing of that InputSet for every
\* enabled (domain, environment) pair: no cell of the previous ResultSet is
\* kept.
C19_EventuallySized ==
    /\ MutationPending ~> (edits > 0 /\ effects = {} /\ ~thrown)
    /\ [][(MutationPending /\ effects' # effects) =>
              /\ effects' = {}
              /\ ~thrown'
              /\ inputs' = inputs
              /\ \A inp \in {inputs} : results' = SizingOf(inp)]_vars

\* an edit that changed every cell of a domain has been sized
C19_Witness ==
    /\ edits > 0
    /\ effects = {}
    /\ ~thrown
    /\ \E dm \in DOMAIN inputs :
        /\ inputs[dm].messagesPerSecond = 262144
        /\ DOMAIN results[dm] = Envs
        /\ results[dm]["prd"].tier = "dedicated"
        /\ results[dm] = [e \in Envs |-> sizeCell(inputs[dm], e)]

\* the DomainInput and environment of the worked example
IsExample(di) ==
    /\ di.messagesPerSecond = 1000
    /\ di.avgMessageSize = 1024
    /\ di.retentionDays = 7
    /\ di.replicationFactor = 3
    /\ di.partitionsPerTopic = 6
    /\ di.topicsCount = 10
    /\ di.peakMultiplier = QFrac(25, 10)
    /\ di.compressionRatio = QFrac(65, 100)
    /\ di.durabilityLevel = "standard"
    /\ di.environments["prd"] = [scale |-> QInt(1), enabled |-> TRUE]

\* C20: for cust with 1000 messages/s of 1024 bytes, retention 7, replication
\* 3, 6 partitions per topic, 10 topics, peak multiplier 2.5, compression ratio
\* 0.65, durability standard and prd enabled at scale 1.0, the prd cell has raw
\* throughput 1000*2.5*1024/1048576 = 625/256 MB/s (about 2.441), compressed
\* throughput 0.65 times that = 1625/1024 (about 1.587), 60 partitions, tier
\* basic and 1 unit.
C20_WorkedExample ==
    (Recomputed /\ "cust" \in DOMAIN inputs /\ IsExample(inputs["cust"])) =>
        LET cell == results["cust"]["prd"]
        IN  /\ cell.rawThroughputMBps = QFrac(1000 * 25 * 1024, 10 * 1048576)
            /\ QLeq(QFrac(2441, 1000), cell.rawThroughputMBps)
            /\ QLess(cell.rawThroughputMBps, QFrac(2442, 1000))
            /\ cell.throughputMBps = QMulFrac(cell.rawThroughputMBps, 65, 100)
            /\ QLeq(QFrac(1586, 1000), cell.throughputMBps)
            /\ QLess(cell.throughputMBps, QFrac(1588, 1000))
            /\ cell.partitions = 60
            /\ cell.tier = "basic"
            /\ cell.ecku = 1

\* the example's inputs have been sized: 1625/1024 MB/s after compression
C20_Witness ==
    /\ Recomputed
    /\ "cust" \in DOMAIN inputs
    /\ IsExample(inputs["cust"])
    /\ "prd" \in DOMAIN results["cust"]
    /\ results["cust"]["prd"].throughputMBps = Mk(1, 601, 1024)

(***************************************************************************)
(* Claims about the sizing of a cell, checked under Spec.                  *)
(***************************************************************************)
\* x : y = s1 : s2
SameRatio(x, y, s1, s2) == QMul(x, s2) = QMul(y, s1)

\* C21: throughput and storage are linear in the environment scale: for two
\* cells of one domain, sized with the scales s1 and s2, the raw throughput,
\* the compressed throughput, the total storage and the raw storage are in the
\* ratio s1 : s2 (checked for s1 <= s2, the ratio being symmetric) and the topic
\* and partition counts are equal; a cell of scale 0.1 has one tenth of each of
\* these quantities of a cell of scale 1.0.
C21_LinearInScale ==
    \A dm \in DOMAIN results : \A e1, e2 \in DOMAIN results[dm] :
        LET c1 == results[dm][e1]
            c2 == results[dm][e2]
            s1 == c1.scalingFactors.scale
            s2 == c2.scalingFactors.scale
        IN  /\ s1 = s2 =>
                  /\ c1.rawThroughputMBps = c2.rawThroughputMBps
                  /\ c1.throughputMBps = c2.throughputMBps
                  /\ c1.storageGB = c2.storageGB
                  /\ c1.rawStorageGB = c2.rawStorageGB
            /\ QLess(s1, s2) =>
                  /\ SameRatio(c1.rawThroughputMBps, c2.rawThroughputMBps, s1, s2)
                  /\ SameRatio(c1.throughputMBps, c2.throughputMBps, s1, s2)
                  /\ SameRatio(c1.storageGB, c2.storageGB, s1, s2)
                  /\ SameRatio(c1.rawStorageGB, c2.rawStorageGB, s1, s2)
            /\ c1.topics = c2.topics
            /\ c1.partitions = c2.partitions
            /\ (s1 = QFrac(1, 10) /\ s2 = QInt(1)) =>
                  /\ QMulFrac(c1.rawThroughputMBps, 10, 1) = c2.rawThroughputMBps
                  /\ QMulFrac(c1.throughputMBps, 10, 1) = c2.throughputMBps
                  /\ QMulFrac(c1.storageGB, 10, 1) = c2.storageGB
                  /\ QMulFrac(c1.rawStorageGB, 10, 1) = c2.rawStorageGB

\* a domain sized with the default scales 0.1 and 1.0 in dev and prd and with
\* the scale 2 typed into another environment, each cell with load and storage
C21_Witness ==
    /\ Recomputed
    /\ edits > 0
    /\ \E dm \in DOMAIN results :
        /\ {"dev", "prd"} \subseteq DOMAIN results[dm]
        /\ inputs[dm].environments["dev"].scale = QFrac(1, 10)
        /\ inputs[dm].environments["prd"].scale = QInt(1)
        /\ QLess(QInt(0), results[dm]["dev"].storageGB)
        /\ QLess(QInt(0), results[dm]["dev"].throughputMBps)
        /\ \E e \in DOMAIN results[dm] :
            /\ results[dm][e].scalingFactors.scale = QInt(2)
            /\ results[dm][e].storageGB = QMulFrac(results[dm]["dev"].storageGB, 20, 1)

(***************************************************************************)
(* Claims about the startup, checked under Spec.                           *)
(***************************************************************************)
\* the load effect of a mount runs and finds no snapshot in the store
LoadWithoutSnapshot ==
    "load" \in effects /\ "load" \notin effects' /\ storage = <<>>

\* C22: when no snapshot exists, the InputSet after initialization holds
\* exactly the five domains, each with topicsCount = 2 * its number of
\* subdomains, with the scales 0.1, 0.3, 0.7 and 1.0 for dev, tst, pre and prd
\* and with all four environments enabled.
C22_DefaultsWithoutSnapshot ==
    [][LoadWithoutSnapshot =>
         /\ DOMAIN inputs' = {"cust", "comm", "corp", "aops", "hols"}
         /\ \A dm \in DOMAIN inputs' :
              /\ inputs'[dm].topicsCount = 2 * BUSINESS_DOMAINS[dm].subdomains
              /\ DOMAIN inputs'[dm].environments = {"dev", "tst", "pre", "prd"}
              /\ inputs'[dm].environments["dev"].scale = QFrac(1, 10)
              /\ inputs'[dm].environments["tst"].scale = QFrac(3, 10)
              /\ inputs'[dm].environments["pre"].scale = QFrac(7, 10)
              /\ inputs'[dm].environments["prd"].scale = QInt(1)
              /\ \A e \in DOMAIN inputs'[dm].environments :
                    inputs'[dm].environments[e].enabled
      ]_vars

\* the first render after a mount that found the store empty: the InputSet is
\* set, nothing is saved or sized yet, and hols has its 16 topics
C22_Witness ==
    /\ storage = <<>>
    /\ effects = {"save", "calc"}
    /\ results = Empty
    /\ ~thrown
    /\ DOMAIN inputs = Domains
    /\ inputs["hols"].topicsCount = 16
    /\ inputs["corp"].topicsCount = 8

(***************************************************************************)
(* Claims about the tier and the units of a cell, checked under Spec.      *)
(***************************************************************************)
\* C23 (as claimed): for every result cell, the cell's partition count does not
\* exceed the partition ceiling (maxPartitions) of the tier selected for it:
\* 4000 for basic, 4000 for standard, 10000 for dedicated.
C23_PartitionsWithinCeiling ==
    \A c \in CellsOf(results) :
        LET cell == results[c[1]][c[2]]
        IN  cell.partitions <= CONFLUENT_ECKU_PRICING[cell.tier].maxPartitions

(***************************************************************************)
(* Claims about the order of load and save at startup, checked under Spec. *)
(***************************************************************************)
\* the effects of the first commit of a mount run: the InputSet is still {}
FirstFlush == "load" \in effects /\ ~thrown

\* the effects of the commit that follows the load run on a usable store
SecondFlush ==
    /\ effects = {"save", "calc"}
    /\ results = Empty
    /\ inputs # Empty
    /\ ~thrown
    /\ available

\* the store holds a snapshot that loadSavedData takes
ValidSnapshot(store) ==
    /\ store # <<>>
    /\ store[1] # NoJSON
    /\ "inputs" \in DOMAIN JSONparse(store[1])
    /\ "clusterMode" \in DOMAIN JSONparse(store[1])

\* C24: during startup the save never runs while the InputSet is empty, so an
\* existing valid snapshot is not overwritten before it is loaded, and the
\* first snapshot written after the mount holds exactly the loaded inputs and
\* the loaded clusterMode.
C24_NoSaveBeforeLoad ==
    [][/\ (FirstFlush \/ inputs = Empty) => storage' = storage
       /\ SecondFlush =>
            \A after \in {storage'}, before \in {storage} :
                /\ after # <<>>
                /\ JSONparse(after[1]).inputs = inputs
                /\ JSONparse(after[1]).clusterMode = clusterMode
                /\ ValidSnapshot(before) =>
                      /\ JSONparse(after[1]).inputs = JSONparse(before[1]).inputs
                      /\ JSONparse(after[1]).clusterMode =
                            JSONparse(before[1]).clusterMode
      ]_vars

\* a mount has loaded the snapshot of an earlier session, which differs from
\* the defaults in its inputs and in its clusterMode, and has written it back
C24_Witness ==
    /\ edits = 0
    /\ effects = {}
    /\ ~thrown
    /\ available
    /\ clusterMode = "domain"
    /\ DOMAIN inputs = Domains
    /\ inputs # initializeInputs
    /\ \A dm \in Domains : inputs[dm].messagesPerSecond = -1000
    /\ storage = Snapshot(inputs, clusterMode)
    /\ DOMAIN results = Domains

\* the throughput, in MB/s, that a tier carries with a number of units: 100 for
\* each basic unit, 250 for each two standard units, 500 for each four
\* dedicated units
Capacity(tier, units) ==
    CASE tier = "basic"     -> QInt(units * 100)
      [] tier = "standard"  -> QMulFrac(QInt(units), 250, 2)
      [] tier = "dedicated" -> QMulFrac(QInt(units), 500, 4)

\* C25: for every result cell with non-negative compressed throughput, the
\* throughput capacity of the selected units, units * 100 MB/s for basic,
\* (units / 2) * 250 MB/s for standard, (units / 4) * 500 MB/s for dedicated, is
\* at least the cell's compressed peak throughput, whatever the durability
\* level.
C25_CapacityCoversLoad ==
    \A c \in CellsOf(results) :
        LET cell == results[c[1]][c[2]]
        IN  QLeq(QInt(0), cell.throughputMBps) =>
                QLeq(cell.throughputMBps, Capacity(cell.tier, cell.ecku))

\* one domain has a loaded cell in each of the three tiers and a second
\* dedicated cell that is dedicated by its load, each carried by its units
C25_Witness ==
    /\ Recomputed
    /\ \E dm \in DOMAIN results :
        /\ DOMAIN results[dm] = Envs
        /\ results[dm]["tst"].tier = "basic" /\ results[dm]["tst"].ecku >= 1
        /\ results[dm]["pre"].tier = "standard" /\ results[dm]["pre"].ecku >= 2
        /\ results[dm]["prd"].tier = "dedicated" /\ results[dm]["prd"].ecku >= 4
        /\ QLess(QInt(400), results[dm]["prd"].throughputMBps)
        /\ \A e \in Envs :
              QLeq(results[dm][e].throughputMBps,
                   Capacity(results[dm][e].tier, results[dm][e].ecku))

\* the storage price per GB and month of each tier (App.js:68-72)
StoragePricePerGB(tier) ==
    CASE tier = "basic"     -> QFrac(8, 100)
      [] tier = "standard"  -> QFrac(10, 100)
      [] tier = "dedicated" -> QFrac(12, 100)

\* C26: for every result cell the monthly capacity-unit cost is 75 times the
\* cell's units whatever the tier (75/1 = 150/2 = 300/4), so the tier changes
\* the cell's monthly cost only through the storage price per GB.
C26_UnitCostIs75 ==
    \A c \in CellsOf(results) :
        LET cell == results[c[1]][c[2]]
        IN  /\ cell.costs.ecku = QInt(75 * cell.ecku)
            /\ cell.costs.monthly =
                  QAdd(QInt(75 * cell.ecku),
                       QMul(cell.storageGB, StoragePricePerGB(cell.tier)))

\* a standard and a dedicated cell of one domain with four units each, each
\* costing 300 a month for its units, and a basic cell of two units costing 150
C26_Witness ==
    /\ Recomputed
    /\ \E dm \in DOMAIN results :
        /\ DOMAIN results[dm] = Envs
        /\ results[dm]["tst"].tier = "basic"
        /\ results[dm]["tst"].ecku = 2
        /\ results[dm]["tst"].costs.ecku = QInt(150)
        /\ results[dm]["pre"].tier = "standard"
        /\ results[dm]["pre"].ecku = 4
        /\ results[dm]["pre"].costs.ecku = QInt(300)
        /\ results[dm]["prd"].tier = "dedicated"
        /\ results[dm]["prd"].ecku = 4
        /\ results[dm]["prd"].costs.ecku = QInt(300)

(***************************************************************************)
(* Claims about the two policies and the handlers' frame, checked under    *)
(* Spec.                                                                   *)
(***************************************************************************)
\* C27 (as claimed): for every ResultSet reached through the form's input
\* handlers, the total capacity units and the total storage under the shared
\* policy ('single') are each at most the corresponding total under the
\* per-domain policy ('domain').
C27_SharedAtMostPerDomain ==
    LET shared == Totals(results, "single")
        perDomain == Totals(results, "domain")
    IN  /\ shared.totalECKUs <= perDomain.totalECKUs
        /\ QLeq(shared.totalStorage, perDomain.totalStorage)

\* the recompute effect runs over results that were sized before the mutation
Resizing == Sizing /\ results # Empty

\* C28: updateInput(d, field, v) changes only that field of domain d and
\* updateEnvironmentInput(d, e, field, v) only that field of environment e of
\* domain d: every other field, every other environment config and every other
\* domain's DomainInput is unchanged, and after the recomputation the result
\* cells of every domain other than d are what they were before.
C28_HandlerFrame ==
    [][/\ Mutation =>
            \E d \in DOMAIN inputs :
                /\ DOMAIN inputs' = DOMAIN inputs
                /\ \A other \in DOMAIN inputs \ {d} : inputs'[other] = inputs[other]
                /\ DOMAIN inputs'[d] = DOMAIN inputs[d]
                /\ \/ \E field \in DOMAIN inputs[d] \ {"environments"} :
                        \A g \in DOMAIN inputs[d] \ {field} :
                            inputs'[d][g] = inputs[d][g]
                   \/ /\ \A g \in DOMAIN inputs[d] \ {"environments"} :
                            inputs'[d][g] = inputs[d][g]
                      /\ DOMAIN inputs'[d].environments = DOMAIN inputs[d].environments
                      /\ \E e \in Envs, field \in {"scale", "enabled"} :
                            /\ \A o \in Envs \ {e} :
                                  inputs'[d].environments[o] = inputs[d].environments[o]
                            /\ DOMAIN inputs'[d].environments[e] =
                                  DOMAIN inputs[d].environments[e]
                            /\ \A g \in {"scale", "enabled"} \ {field} :
                                  inputs'[d].environments[e][g] =
                                      inputs[d].environments[e][g]
       /\ Resizing =>
            /\ DOMAIN results' = DOMAIN results
            /\ \A d1, d2 \in DOMAIN results :
                  (results'[d1] # results[d1] /\ results'[d2] # results[d2]) => d1 = d2
      ]_vars

\* the scale 2 was typed for the tst environment of cust and the results were
\* sized again: the other environments of cust and the other domains have the
\* inputs and the cells of the defaults
C28_Witness ==
    /\ Recomputed
    /\ edits > 0
    /\ DOMAIN inputs = Domains
    /\ inputs["cust"].environments["tst"] = [scale |-> QInt(2), enabled |-> TRUE]
    /\ \A e \in Envs \ {"tst"} :
          inputs["cust"].environments[e] = initializeInputs["cust"].environments[e]
    /\ \A dm \in Domains \ {"cust"} : inputs[dm] = initializeInputs[dm]
    /\ results["hols"]["prd"].topics = 16
    /\ results["cust"]["tst"].scalingFactors.scale = QInt(2)
    /\ results["cust"]["tst"].storageGB = QMulFrac(results["comm"]["prd"].storageGB, 2, 1)

====
